---- MODULE Spec2Model ----
\* Model of the RAG documentation navigator:
\*   src/build_index.py            the offline index builder (create_optimized_index)
\*   src/lambda_function/app.py    the query service (lambda_handler, load_index,
\*                                 search_similar_chunks, cosine_similarity,
\*                                 generate_answer_with_tracking)
\* Three specifications share the module:
\*   Spec        the Lambda process: INDEX_CACHE and a sequence of invocations
\*   SpecSearch  search_similar_chunks as a function of (embedding reply, index, top_k)
\*   SpecBuild   one run of create_optimized_index
\*   SpecConc    load_index called by several threads of one process
\*   SpecCosine  cosine_similarity as a function of its two vectors
\* Floating point is modelled by exact arithmetic: a similarity is kept as the
\* pair (num, den) standing for num / sqrt(den).  Chunk text is not modelled.
EXTENDS Integers, Sequences, FiniteSets, TLC

\* ---------------------------------------------------------------- bounds
MaxDocs == 3        \* raw chunks handed to the builder / chunks in a store
MaxCached == 2      \* chunks in a store the Lambda process fetches
MaxK == 3           \* largest top_k tried in SpecSearch
MaxRequests == 3    \* invocations of lambda_handler per process lifetime
NumThreads == 2     \* threads calling load_index in SpecConc

\* ------------------------------------------------------- program constants
TOP_K == 5          \* lambda_handler calls search_similar_chunks(..., top_k=5)
DECLARED_DIM == 1536  \* metadata.embedding_dimension written by the builder

\* ------------------------------------------------------------- base values
\* Python's None, as a record so that it compares with decoded JSON values.
None == [kind |-> "None"]

\* Vectors an embedding producer can answer with.  <<>> stands for an empty or
\* missing ("falsy") embedding; <<1>> has a different length from the others.
Vecs == { <<>>, <<1>>, <<0, 0>>, <<1, 0>>, <<2, 0>>, <<0, 1>>, <<1, 1>>, <<-1, 0>> }

\* What embed_query / invoke_model can do for one call: raise an exception, or
\* answer with an embedding.
Raise == [raised |-> TRUE, embedding |-> <<>>]
Reply(v) == [raised |-> FALSE, embedding |-> v]
EmbedOutcomes == { Reply(v) : v \in Vecs } \cup {Raise}

Min(a, b) == IF a <= b THEN a ELSE b
Max(a, b) == IF a >= b THEN a ELSE b

\* -------------------------------------------------------- cosine_similarity
RECURSIVE SumTo(_, _)
SumTo(f, n) == IF n = 0 THEN 0 ELSE f[n] + SumTo(f, n - 1)

\* sum(a * b for a, b in zip(vec1, vec2)): zip stops at the shorter vector.
DotProduct(vec1, vec2) ==
    LET n == Min(Len(vec1), Len(vec2))
    IN  SumTo([i \in 1..n |-> vec1[i] * vec2[i]], n)

\* sum(a * a for a in vec): the square of the norm.
NormSq(vec) == SumTo([i \in 1..Len(vec) |-> vec[i] * vec[i]], Len(vec))

\* Mutant: only the first norm is tested against zero.
cosine_similarity_norm1_only(vec1, vec2) ==
    IF NormSq(vec1) = 0
    THEN [num |-> 0, den |-> 1, divided |-> FALSE]
    ELSE [num |-> DotProduct(vec1, vec2),
          den |-> NormSq(vec1) * NormSq(vec2),
          divided |-> TRUE]

\* The value num / sqrt(den); divided tells whether the division was executed.
cosine_similarity(vec1, vec2) ==
    IF NormSq(vec1) = 0 \/ NormSq(vec2) = 0
    THEN [num |-> 0, den |-> 1, divided |-> FALSE]
    ELSE [num |-> DotProduct(vec1, vec2),
          den |-> NormSq(vec1) * NormSq(vec2),
          divided |-> TRUE]

\* a < b for similarities a = a.num/sqrt(a.den), b = b.num/sqrt(b.den).
SimLess(a, b) ==
    IF a.num < 0 /\ b.num >= 0 THEN TRUE
    ELSE IF a.num >= 0 /\ b.num < 0 THEN FALSE
    ELSE IF a.num >= 0
         THEN a.num * a.num * b.den < b.num * b.num * a.den
         ELSE a.num * a.num * b.den > b.num * b.num * a.den

SimEq(a, b) == ~SimLess(a, b) /\ ~SimLess(b, a)

\* ------------------------------------------------------------ the builder
\* The raw chunks come from the text splitter in document order; chunk i of a
\* run belongs to this PDF (basename of doc.metadata['source']).
SourceOf(doc_index) == IF doc_index < 2 THEN "a.pdf" ELSE "b.pdf"

\* Mutant: the id is the append position instead of the input index.
ChunkIdRenumbered(chunks, doc_index) == Len(chunks)

\* "id": doc_index  (doc_index = i + j, the 0-based input index)
ChunkId(chunks, doc_index) == doc_index

\* index_data["chunks"].append({...}) after a successful embed_query.
AppendChunk(chunks, doc_index, embedding) ==
    Append(chunks, [id |-> ChunkId(chunks, doc_index),
                    embedding |-> embedding,
                    source |-> SourceOf(doc_index)])

\* One iteration of the loop body for input doc_index with the given outcome
\* of embed_query: append on success, print and continue on an exception.
EmbedStep(chunks, doc_index, outcome) ==
    IF outcome.raised THEN chunks
    ELSE AppendChunk(chunks, doc_index, outcome.embedding)

\* The chunk list the loop leaves for the outcomes o[1..n] (input index i-1).
RECURSIVE ChunksAfter(_, _)
ChunksAfter(o, n) ==
    IF n = 0 THEN <<>> ELSE EmbedStep(ChunksAfter(o, n - 1), n - 1, o[n])

\* Every chunk list a build of at most max raw chunks can produce.
BuiltChunkLists(max) ==
    UNION { { ChunksAfter(o, n) : o \in [1..n -> EmbedOutcomes] } : n \in 0..max }

\* index_data as the builder holds it: metadata.total_chunks is set once, to
\* len(docs), before the loop.
IndexData(chunks, total_chunks) ==
    [chunks |-> chunks,
     metadata |-> [total_chunks |-> total_chunks,
                   embedding_dimension |-> DECLARED_DIM]]

\* Every index a build can serialize: n raw chunks, any outcomes.
BuiltIndexes(max) ==
    UNION { { IndexData(ChunksAfter(o, n), n) : o \in [1..n -> EmbedOutcomes] } :
            n \in 0..max }

\* gzip.compress(json.dumps(index_data)): the bytes of the index file, and
\* what gzip.decompress + json.loads make of them.
Serialize(index_data) == [format |-> "json.gz", value |-> index_data]
Deserialize(bytes) == bytes.value

\* ------------------------------------------------- search_similar_chunks
\* Decoded index values (json.loads of the stored object).
HasChunks(index) == "chunks" \in DOMAIN index

\* similarities list: one entry per chunk with a present, non-empty embedding.
RECURSIVE Similarities(_, _)
Similarities(query_embedding, chunks) ==
    IF chunks = <<>> THEN <<>>
    ELSE LET chunk == Head(chunks)
             rest == Similarities(query_embedding, Tail(chunks))
         IN  IF chunk.embedding /= <<>>
             THEN <<[chunk |-> chunk,
                     similarity |-> cosine_similarity(query_embedding, chunk.embedding)]>>
                  \o rest
             ELSE rest

\* Mutant: an entry is placed before the entries of equal similarity, as a
\* sort followed by a reversal would do.
InsertDescUnstable(sorted, item) ==
    LET before == { i \in 1..Len(sorted) :
                      SimLess(item.similarity, sorted[i].similarity) }
        n == Cardinality(before)
    IN  SubSeq(sorted, 1, n) \o <<item>> \o SubSeq(sorted, n + 1, Len(sorted))

\* list.sort(key=similarity, reverse=True) is stable: an entry goes after every
\* entry whose similarity is greater than or equal to its own.
InsertDesc(sorted, item) ==
    LET before == { i \in 1..Len(sorted) :
                      ~SimLess(sorted[i].similarity, item.similarity) }
        n == Cardinality(before)
    IN  SubSeq(sorted, 1, n) \o <<item>> \o SubSeq(sorted, n + 1, Len(sorted))

RECURSIVE SortDesc(_)
SortDesc(sims) ==
    IF sims = <<>> THEN <<>>
    ELSE InsertDesc(SortDesc(SubSeq(sims, 1, Len(sims) - 1)), sims[Len(sims)])

\* Mutant: the slice stops one entry early, similarities[:top_k - 1] for a
\* positive top_k.
SliceToOneShort(seq, top_k) ==
    SubSeq(seq, 1, Max(0, Min(top_k, Len(seq)) - 1))

\* similarities[:top_k] with Python's slice semantics.
SliceTo(seq, top_k) ==
    IF top_k >= 0 THEN SubSeq(seq, 1, Min(top_k, Len(seq)))
    ELSE SubSeq(seq, 1, Max(0, Len(seq) + top_k))

\* The value search_similar_chunks returns: reply is what invoke_model did
\* (Raise, or the 'embedding' of the reply, <<>> when absent or empty).
search_similar_chunks(reply, index, top_k) ==
    IF reply.raised THEN <<>>                       \* except: return []
    ELSE IF reply.embedding = <<>> THEN <<>>        \* if not query_embedding
    ELSE IF ~HasChunks(index) THEN <<>>             \* index["chunks"] raises
    ELSE LET top_chunks ==
                 SliceTo(SortDesc(Similarities(reply.embedding, index.chunks)), top_k)
         IN  [i \in 1..Len(top_chunks) |-> top_chunks[i].chunk]

\* ------------------------------------------------------------- load_index
\* What s3_client.get_object + gzip.decompress + json.loads can yield.
JsonNull == None                      \* the object holds the JSON text "null"
JsonList == [kind |-> "list"]         \* a JSON value that is not an object

\* Decoded JSON objects that are not a complete index.
MalformedIndexes ==
    { [chunks |-> c] : c \in BuiltChunkLists(1) }              \* no "metadata"
    \cup { [chunks |-> <<>>, metadata |-> [embedding_dimension |-> DECLARED_DIM]] }
                                                               \* no "total_chunks"
    \cup { [metadata |-> [total_chunks |-> 0,
                          embedding_dimension |-> DECLARED_DIM]] }  \* no "chunks"

\* The objects a build uploads decode to the index the build held.
DecodedValues ==
    { Deserialize(Serialize(x)) : x \in BuiltIndexes(MaxCached) }
    \cup MalformedIndexes \cup {JsonNull, JsonList}

S3Outcomes ==
    { [step |-> st, decoded |-> None] : st \in {"get_object", "decompress", "json"} }
    \cup { [step |-> "ok", decoded |-> d] : d \in DecodedValues }

\* INDEX_CACHE['metadata']['total_chunks'] evaluates without an exception.
HasTotalChunks(d) ==
    /\ "metadata" \in DOMAIN d
    /\ "total_chunks" \in DOMAIN d.metadata

\* Mutant: the parsed index is bound to a local name, the global stays as it was.
CacheAfterParseLocal(cache, decoded) == cache

\* INDEX_CACHE = json.loads(json_data)
CacheAfterParse(cache, decoded) == decoded

\* Mutant: the warm-path test of line 67 is missing, every call fetches and
\* assigns the global again.
load_index_always_fetch(cache, outcome) ==
    IF outcome.step /= "ok"
    THEN [cache |-> cache, raised |-> TRUE, value |-> None,
          fetched |-> TRUE, failed_at |-> outcome.step]
    ELSE IF HasTotalChunks(outcome.decoded)
    THEN [cache |-> outcome.decoded, raised |-> FALSE, value |-> outcome.decoded,
          fetched |-> TRUE, failed_at |-> "none"]
    ELSE [cache |-> outcome.decoded, raised |-> TRUE, value |-> None,
          fetched |-> TRUE, failed_at |-> "metadata"]

\* load_index() with INDEX_CACHE = cache when the storage behaves as outcome:
\* the new INDEX_CACHE, whether it raised, the returned value, whether
\* get_object was called, and the step that failed.
load_index(cache, outcome) ==
    IF cache /= None
    THEN [cache |-> cache, raised |-> FALSE, value |-> cache,
          fetched |-> FALSE, failed_at |-> "none"]
    ELSE IF outcome.step /= "ok"
    THEN [cache |-> cache, raised |-> TRUE, value |-> None,
          fetched |-> TRUE, failed_at |-> outcome.step]
    ELSE LET c == CacheAfterParse(cache, outcome.decoded)
         IN  IF HasTotalChunks(outcome.decoded)
             THEN [cache |-> c, raised |-> FALSE, value |-> c,
                   fetched |-> TRUE, failed_at |-> "none"]
             ELSE [cache |-> c, raised |-> TRUE, value |-> None,
                   fetched |-> TRUE, failed_at |-> "metadata"]

\* ------------------------------------------ generate_answer_with_tracking
\* sources: the set of chunk['metadata']['source'] over the context chunks.
SourcesOf(context_chunks) ==
    { context_chunks[i].source : i \in 1..Len(context_chunks) }

\* (answer, sources, metrics) and whether llm.invoke was called; llm_ok tells
\* whether the generation producer answered or raised.
generate_answer_with_tracking(context_chunks, llm_ok) ==
    IF context_chunks = <<>>
    THEN [answer |-> "no_relevant_information", sources |-> {},
          metrics |-> "empty", invoked |-> FALSE, failed |-> FALSE]
    ELSE IF llm_ok
    THEN [answer |-> "generated", sources |-> SourcesOf(context_chunks),
          metrics |-> "measured", invoked |-> TRUE, failed |-> FALSE]
    ELSE \* except: return f"Error generating response: {str(e)}", [], {}
         [answer |-> "error_text_with_exception_detail", sources |-> {},
          metrics |-> "empty", invoked |-> TRUE, failed |-> TRUE]

NoGen == [answer |-> "none", sources |-> {}, metrics |-> "empty",
          invoked |-> FALSE, failed |-> FALSE]

\* ---------------------------------------------------------- lambda_handler
\* Events: what the handler reads of them.
\*   headers  "absent" (no key), "null", "no_key", "empty_key", "wrong_key", "valid_key"
\*   method   "POST" | "OPTIONS"
\*   body     "absent" (no key), "null", "bad_json", "not_object", "object"
\*   question (of an object body) "absent", "null", "not_string", "empty", "blank", "text"
HeaderKinds == {"absent", "null", "no_key", "empty_key", "wrong_key", "valid_key"}
QuestionKinds == {"absent", "null", "not_string", "empty", "blank", "text"}

Event(h, m, b, q) == [headers |-> h, method |-> m, body |-> b, question |-> q]

\* The handler reads method and body only after the key check passed, so the
\* events without a valid key carry one representative body.
Events ==
    { Event(h, m, "object", "text") : h \in HeaderKinds, m \in {"POST", "OPTIONS"} }
    \cup { Event("valid_key", "POST", b, "absent") :
             b \in {"absent", "null", "bad_json", "not_object"} }
    \cup { Event("valid_key", "POST", "object", q) : q \in QuestionKinds }

\* not provided_api_key or provided_api_key != valid_api_key
KeyRejected(e, key_configured) ==
    ~(e.headers = "valid_key" /\ key_configured)

\* Mutant: the question is tested without .strip().
QuestionIsEmptyNoStrip(q) == q \in {"absent", "empty"}

\* question = body.get("question", "").strip(); not question
QuestionIsEmpty(q) == q \in {"absent", "empty", "blank"}

\* Mutant: the test is "relevant_chunks is None", which a list never passes.
NoRelevantChunksIsNone(relevant_chunks) == FALSE

\* if not relevant_chunks
NoRelevantChunks(relevant_chunks) == relevant_chunks = <<>>

Response(status, error, answer, sources, chunks_used, details) ==
    [statusCode |-> status, error |-> error, answer |-> answer,
     sources |-> sources, chunks_used |-> chunks_used, details |-> details]

NoResponse == Response(0, "none", "none", {}, 0, "none")
Unhandled == Response(0, "unhandled_exception", "none", {}, 0, "none")
Resp401 == Response(401, "Unauthorized", "none", {}, 0, "none")
RespPreflight == Response(200, "none", "none", {}, 0, "none")
Resp400Missing == Response(400, "Missing 'question' parameter", "none", {}, 0, "none")
Resp400Json == Response(400, "Invalid JSON", "none", {}, 0, "none")
Resp500 == Response(500, "Internal server error", "none", {}, 0, "exception_text")
RespCanned == Response(200, "none", "canned_not_found", {}, 0, "none")
RespAnswer(g, relevant_chunks) ==
    Response(200, "none", g.answer, g.sources, Len(relevant_chunks), "none")

NoCalls == [load |-> 0, get_object |-> 0, embed |-> 0, generate |-> 0, metrics |-> 0]
NoFlags == [searched |-> FALSE, embed_failed |-> FALSE, gen_failed |-> FALSE,
            logged_detail |-> FALSE]

\* ------------------------------------------------------------- variables
VARIABLES
    INDEX_CACHE,     \* the module-level cache of app.py
    key_configured,  \* whether VALID_API_KEY is set in the process environment
    pc,              \* position of the running invocation
    event,           \* the event of the running (or last) invocation
    requests,        \* invocations started so far
    index,           \* lambda_handler's local: the value load_index returned
    relevant_chunks, \* lambda_handler's local: what search_similar_chunks returned
    gen,             \* lambda_handler's locals answer, sources, metrics
    response,        \* the value lambda_handler returned
    calls,           \* external calls made during the running invocation
    flags,           \* what happened during the running invocation
    fetch_count,     \* get_object calls over the process lifetime
    last_load,       \* the last load_index call: "none", "ok" or the failed step
    load_succeeded,  \* some load_index call has returned a value
    load_failed,     \* some load_index call has raised
    s_pc,        \* SpecSearch: "init" | "called"
    s_index,     \* SpecSearch: the index argument
    s_top_k,     \* SpecSearch: the top_k argument
    s_reply,     \* SpecSearch: what the embedding producer did
    s_result,    \* SpecSearch: the returned chunk list
    b_pc,        \* SpecBuild: position in create_optimized_index
    b_docs,      \* SpecBuild: len(docs), the number of raw chunks
    b_outcomes,  \* SpecBuild: what embed_query did for each raw chunk so far
    b_index,     \* SpecBuild: index_data
    b_local,     \* SpecBuild: content of local_index/index.json.gz
    b_s3,        \* SpecBuild: content of the S3 object index.json.gz
    b_result,    \* SpecBuild: how the run ended
    t_pc,        \* SpecConc: each thread's position in load_index
    t_ret,       \* SpecConc: the value load_index returned to each thread
    k_pc,        \* SpecCosine: "init" | "called"
    k_vec1,      \* SpecCosine: first argument
    k_vec2,      \* SpecCosine: second argument
    k_sim,       \* SpecCosine: cosine_similarity(vec1, vec2)
    k_rev        \* SpecCosine: cosine_similarity(vec2, vec1)

lambdaVars == <<INDEX_CACHE, key_configured, pc, event, requests, index,
                relevant_chunks, gen, response, calls, flags, fetch_count,
                last_load, load_succeeded, load_failed>>
searchVars == <<s_pc, s_index, s_top_k, s_reply, s_result>>
buildVars == <<b_pc, b_docs, b_outcomes, b_index, b_local, b_s3, b_result>>
concVars == <<t_pc, t_ret>>
cosVars == <<k_pc, k_vec1, k_vec2, k_sim, k_rev>>
vars == <<lambdaVars, searchVars, buildVars, concVars, cosVars>>

\* What the steps of lambda_handler never touch.
fixed == <<key_configured, requests, searchVars, buildVars, concVars, cosVars>>
reqLocals == <<index, relevant_chunks, gen>>
loadHistory == <<fetch_count, last_load, load_succeeded, load_failed>>

\* ----------------------------------------------------------------- Spec
InitLambda ==
    /\ INDEX_CACHE = None
    /\ key_configured \in BOOLEAN
    /\ pc = "idle"
    /\ event = Event("absent", "POST", "absent", "absent")
    /\ requests = 0
    /\ index = None
    /\ relevant_chunks = <<>>
    /\ gen = NoGen
    /\ response = NoResponse
    /\ calls = NoCalls
    /\ flags = NoFlags
    /\ fetch_count = 0
    /\ last_load = "none"
    /\ load_succeeded = FALSE
    /\ load_failed = FALSE

SearchIdle ==
    /\ s_pc = "off"
    /\ s_index = None
    /\ s_top_k = 0
    /\ s_reply = Raise
    /\ s_result = <<>>

BuildIdle ==
    /\ b_pc = "off"
    /\ b_docs = 0
    /\ b_outcomes = <<>>
    /\ b_index = None
    /\ b_local = None
    /\ b_s3 = None
    /\ b_result = "none"

Threads == 1..NumThreads

ConcIdle ==
    /\ t_pc = [t \in Threads |-> "off"]
    /\ t_ret = [t \in Threads |-> None]

CosIdle ==
    /\ k_pc = "off"
    /\ k_vec1 = <<>>
    /\ k_vec2 = <<>>
    /\ k_sim = cosine_similarity(<<>>, <<>>)
    /\ k_rev = cosine_similarity(<<>>, <<>>)

Init == InitLambda /\ SearchIdle /\ BuildIdle /\ ConcIdle /\ CosIdle

\* The handler returns r.
Return(r) ==
    /\ response' = r
    /\ pc' = "responded"

\* lambda_handler is entered with event e.
Invoke ==
    /\ pc \in {"idle", "responded"}
    /\ requests < MaxRequests
    /\ \E e \in Events : event' = e
    /\ requests' = requests + 1
    /\ pc' = "received"
    /\ index' = None
    /\ relevant_chunks' = <<>>
    /\ gen' = NoGen
    /\ response' = NoResponse
    /\ calls' = NoCalls
    /\ flags' = NoFlags
    /\ UNCHANGED <<INDEX_CACHE, key_configured, loadHistory, searchVars, buildVars,
                   concVars, cosVars>>

\* The API key check.  headers.get on a null 'headers' raises outside the try.
CheckApiKey ==
    /\ pc = "received"
    /\ IF event.headers = "null" THEN Return(Unhandled)
       ELSE IF KeyRejected(event, key_configured) THEN Return(Resp401)
       ELSE pc' = "authorized" /\ UNCHANGED response
    /\ UNCHANGED <<INDEX_CACHE, fixed, event, reqLocals,
                   calls, flags, loadHistory>>

\* The CORS preflight answer.
HandlePreflight ==
    /\ pc = "authorized"
    /\ IF event.method = "OPTIONS" THEN Return(RespPreflight)
       ELSE pc' = "validate" /\ UNCHANGED response
    /\ UNCHANGED <<INDEX_CACHE, fixed, event, reqLocals,
                   calls, flags, loadHistory>>

\* Step 1 of the try block: parse the body and validate the question.
ValidateQuestion ==
    /\ pc = "validate"
    /\ IF event.body = "bad_json" THEN Return(Resp400Json)
       ELSE IF event.body \in {"null", "not_object"} THEN Return(Resp500)
       ELSE IF event.question \in {"null", "not_string"} THEN Return(Resp500)
       ELSE IF QuestionIsEmpty(event.question) THEN Return(Resp400Missing)
       ELSE pc' = "load" /\ UNCHANGED response
    /\ flags' = [flags EXCEPT !.logged_detail =
                   event.body \in {"null", "not_object"}
                   \/ (event.body \in {"absent", "object"}
                       /\ event.question \in {"null", "not_string"})]
    /\ UNCHANGED <<INDEX_CACHE, fixed, event, reqLocals,
                   calls, loadHistory>>

\* Step 2: index = load_index(); an exception reaches the handler's except.
LoadIndex ==
    /\ pc = "load"
    /\ \E outcome \in S3Outcomes :
         LET r == load_index(INDEX_CACHE, outcome)
         IN  /\ INDEX_CACHE' = r.cache
             /\ index' = r.value
             /\ fetch_count' = fetch_count + (IF r.fetched THEN 1 ELSE 0)
             /\ calls' = [calls EXCEPT !.load = @ + 1,
                                       !.get_object = @ + (IF r.fetched THEN 1 ELSE 0)]
             /\ last_load' = IF r.raised THEN r.failed_at ELSE "ok"
             /\ load_succeeded' = (load_succeeded \/ ~r.raised)
             /\ load_failed' = (load_failed \/ r.raised)
             /\ flags' = [flags EXCEPT !.logged_detail = r.raised]
             /\ IF r.raised THEN Return(Resp500)
                ELSE pc' = "search" /\ UNCHANGED response
    /\ UNCHANGED <<fixed, event, relevant_chunks, gen>>

\* Step 3: relevant_chunks = search_similar_chunks(question, index, top_k=5),
\* then the canned answer when nothing was retrieved.
SearchChunks ==
    /\ pc = "search"
    /\ \E reply \in EmbedOutcomes :
         LET found == search_similar_chunks(reply, index, TOP_K)
         IN  /\ relevant_chunks' = found
             /\ calls' = [calls EXCEPT !.embed = @ + 1]
             /\ flags' = [flags EXCEPT
                            !.searched = TRUE,
                            !.embed_failed = reply.raised \/ reply.embedding = <<>>,
                            !.logged_detail = reply.raised]
             /\ IF NoRelevantChunks(found) THEN Return(RespCanned)
                ELSE pc' = "generate" /\ UNCHANGED response
    /\ UNCHANGED <<INDEX_CACHE, fixed, event, index, gen,
                   loadHistory>>

\* Step 4: answer, sources, metrics = generate_answer_with_tracking(...).
GenerateAnswer ==
    /\ pc = "generate"
    /\ \E llm_ok \in BOOLEAN :
         LET g == generate_answer_with_tracking(relevant_chunks, llm_ok)
         IN  /\ gen' = g
             /\ calls' = [calls EXCEPT !.generate = @ + (IF g.invoked THEN 1 ELSE 0)]
             /\ flags' = [flags EXCEPT !.gen_failed = g.failed,
                                       !.logged_detail = g.failed]
    /\ pc' = "respond"
    /\ UNCHANGED <<INDEX_CACHE, fixed, event, index,
                   relevant_chunks, response, loadHistory>>

\* Steps 5 and 6: send_metrics_to_cloudwatch (which swallows its own
\* exceptions) and the 200 response.
SendMetricsAndRespond ==
    /\ pc = "respond"
    /\ calls' = [calls EXCEPT !.metrics = @ + 1]
    /\ Return(RespAnswer(gen, relevant_chunks))
    /\ UNCHANGED <<INDEX_CACHE, fixed, event, reqLocals,
                   flags, loadHistory>>

Next ==
    \/ Invoke
    \/ CheckApiKey
    \/ HandlePreflight
    \/ ValidateQuestion
    \/ LoadIndex
    \/ SearchChunks
    \/ GenerateAnswer
    \/ SendMetricsAndRespond

Spec == Init /\ [][Next]_vars

\* ----------------------------------------------------------- SpecSearch
LambdaIdle ==
    /\ InitLambda
    /\ key_configured = FALSE

InitSearch ==
    /\ s_pc = "init"
    /\ s_index \in BuiltIndexes(MaxDocs)
    /\ s_top_k \in 0..MaxK
    /\ s_reply = Raise
    /\ s_result = <<>>
    /\ LambdaIdle
    /\ BuildIdle
    /\ ConcIdle
    /\ CosIdle

CallSearch ==
    /\ s_pc = "init"
    /\ \E reply \in EmbedOutcomes :
         /\ s_reply' = reply
         /\ s_result' = search_similar_chunks(reply, s_index, s_top_k)
    /\ s_pc' = "called"
    /\ UNCHANGED <<s_index, s_top_k, lambdaVars, buildVars, concVars, cosVars>>

NextSearch == CallSearch

SpecSearch == InitSearch /\ [][NextSearch]_vars

\* ------------------------------------------------------------ SpecBuild
\* One run of create_optimized_index over b_docs raw chunks.
InitBuild ==
    /\ b_pc = "start"
    /\ b_docs \in 0..MaxDocs
    /\ b_outcomes = <<>>
    /\ b_index = None
    /\ b_local = None
    /\ b_s3 = None
    /\ b_result = "none"
    /\ LambdaIdle
    /\ SearchIdle
    /\ ConcIdle
    /\ CosIdle

\* Steps 1 to 3 and the creation of index_data; no documents ends the run.
LoadDocuments ==
    /\ b_pc = "start"
    /\ IF b_docs = 0
       THEN /\ b_pc' = "done"
            /\ b_result' = "no_documents"
            /\ UNCHANGED b_index
       ELSE /\ b_pc' = "embed"
            /\ b_index' = IndexData(<<>>, b_docs)
            /\ UNCHANGED b_result
    /\ UNCHANGED <<b_docs, b_outcomes, b_local, b_s3, lambdaVars, searchVars, concVars, cosVars>>

\* One iteration of the embedding loop, for doc_index = Len(b_outcomes).
EmbedDoc ==
    /\ b_pc = "embed"
    /\ Len(b_outcomes) < b_docs
    /\ \E outcome \in EmbedOutcomes :
         /\ b_outcomes' = Append(b_outcomes, outcome)
         /\ b_index' = [b_index EXCEPT
                          !.chunks = EmbedStep(@, Len(b_outcomes), outcome)]
    /\ UNCHANGED <<b_pc, b_docs, b_local, b_s3, b_result, lambdaVars, searchVars, concVars, cosVars>>

\* Step 5: json.dumps, gzip.compress and the write of the local file.
SaveLocal ==
    /\ b_pc = "embed"
    /\ Len(b_outcomes) = b_docs
    /\ b_local' = Serialize(b_index)
    /\ b_pc' = "upload"
    /\ UNCHANGED <<b_docs, b_outcomes, b_index, b_s3, b_result, lambdaVars, searchVars, concVars, cosVars>>

\* Step 6: put_object, then head_object; either may raise.
UploadS3 ==
    /\ b_pc = "upload"
    /\ \E s3 \in {"ok", "put_raises", "head_raises"} :
         /\ b_s3' = IF s3 = "put_raises" THEN b_s3 ELSE b_local
         /\ b_result' = IF s3 = "ok" THEN "uploaded" ELSE "upload_failed"
    /\ b_pc' = "done"
    /\ UNCHANGED <<b_docs, b_outcomes, b_index, b_local, lambdaVars, searchVars, concVars, cosVars>>

NextBuild ==
    \/ LoadDocuments
    \/ EmbedDoc
    \/ SaveLocal
    \/ UploadS3

SpecBuild == InitBuild /\ [][NextBuild]_vars

\* ------------------------------------------------------------- SpecConc
\* load_index has no lock: threads of one process interleave between its
\* statements.  Each thread calls load_index once.
\*   "idle"       not yet called
\*   "get_object" past the test of line 67, about to call get_object
\*   "fetching"   get_object / Body.read() in progress
\*   "metadata"   INDEX_CACHE assigned (line 83), about to read it (line 85)
\*   "returned" | "raised"
lambdaRest == <<key_configured, pc, event, requests, index, relevant_chunks, gen,
                response, calls, flags, last_load, load_succeeded, load_failed>>

\* What the storage can answer in SpecConc: a failure, or a small index.
ConcOutcomes ==
    { [step |-> st, decoded |-> None] : st \in {"get_object", "decompress", "json"} }
    \cup { [step |-> "ok", decoded |-> d] : d \in BuiltIndexes(1) \cup {JsonList} }

InitConc ==
    /\ InitLambda
    /\ key_configured = FALSE
    /\ t_pc = [t \in Threads |-> "idle"]
    /\ t_ret = [t \in Threads |-> None]
    /\ SearchIdle
    /\ BuildIdle
    /\ CosIdle

\* if INDEX_CACHE is not None: return INDEX_CACHE
T_CheckCache ==
    \E t \in Threads :
      /\ t_pc[t] = "idle"
      /\ IF INDEX_CACHE /= None
         THEN /\ t_pc' = [t_pc EXCEPT ![t] = "returned"]
              /\ t_ret' = [t_ret EXCEPT ![t] = INDEX_CACHE]
         ELSE /\ t_pc' = [t_pc EXCEPT ![t] = "get_object"]
              /\ UNCHANGED t_ret
      /\ UNCHANGED <<INDEX_CACHE, fetch_count, lambdaRest, searchVars, buildVars, cosVars>>

\* response = s3_client.get_object(...): the fetch starts.
T_GetObject ==
    \E t \in Threads :
      /\ t_pc[t] = "get_object"
      /\ t_pc' = [t_pc EXCEPT ![t] = "fetching"]
      /\ fetch_count' = fetch_count + 1
      /\ UNCHANGED <<INDEX_CACHE, t_ret, lambdaRest, searchVars, buildVars, cosVars>>

\* The fetch ends; decompress; INDEX_CACHE = json.loads(json_data).
T_FetchDone ==
    \E t \in Threads :
      /\ t_pc[t] = "fetching"
      /\ \E outcome \in ConcOutcomes :
           IF outcome.step /= "ok"
           THEN /\ t_pc' = [t_pc EXCEPT ![t] = "raised"]
                /\ UNCHANGED INDEX_CACHE
           ELSE /\ t_pc' = [t_pc EXCEPT ![t] = "metadata"]
                /\ INDEX_CACHE' = CacheAfterParse(INDEX_CACHE, outcome.decoded)
      /\ UNCHANGED <<fetch_count, t_ret, lambdaRest, searchVars, buildVars, cosVars>>

\* logger.info(INDEX_CACHE['metadata']['total_chunks']); return INDEX_CACHE
T_ReadMetadata ==
    \E t \in Threads :
      /\ t_pc[t] = "metadata"
      /\ IF HasTotalChunks(INDEX_CACHE)
         THEN /\ t_pc' = [t_pc EXCEPT ![t] = "returned"]
              /\ t_ret' = [t_ret EXCEPT ![t] = INDEX_CACHE]
         ELSE /\ t_pc' = [t_pc EXCEPT ![t] = "raised"]
              /\ UNCHANGED t_ret
      /\ UNCHANGED <<INDEX_CACHE, fetch_count, lambdaRest, searchVars, buildVars, cosVars>>

NextConc ==
    \/ T_CheckCache
    \/ T_GetObject
    \/ T_FetchDone
    \/ T_ReadMetadata

SpecConc == InitConc /\ [][NextConc]_vars

\* ----------------------------------------------------------- SpecCosine
InitCosine ==
    /\ k_pc = "init"
    /\ k_vec1 \in Vecs
    /\ k_vec2 \in Vecs
    /\ k_sim = cosine_similarity(<<>>, <<>>)
    /\ k_rev = cosine_similarity(<<>>, <<>>)
    /\ LambdaIdle
    /\ SearchIdle
    /\ BuildIdle
    /\ ConcIdle

CallCosine ==
    /\ k_pc = "init"
    /\ k_sim' = cosine_similarity(k_vec1, k_vec2)
    /\ k_rev' = cosine_similarity(k_vec2, k_vec1)
    /\ k_pc' = "called"
    /\ UNCHANGED <<k_vec1, k_vec2, lambdaVars, searchVars, buildVars, concVars>>

NextCosine == CallCosine

SpecCosine == InitCosine /\ [][NextCosine]_vars

\* ================================================================ claims

\* ---- C1 (Spec) --------------------------------------------------------
\* C1: once a load_index call has returned a value, no later step changes
\* INDEX_CACHE or calls get_object again, every later load_index call returns
\* the cached value itself, and when no load failed before the first
\* success the get_object count is and stays 1.
C1_WarmPathNoRefetch ==
    [][ load_succeeded =>
          /\ fetch_count' = fetch_count
          /\ INDEX_CACHE' = INDEX_CACHE
          /\ (pc = "load" => pc' = "search" /\ index' = INDEX_CACHE)
          /\ (~load_failed' => fetch_count' = 1) ]_vars

\* A third invocation is served from the cache that the first one filled.
C1_Witness ==
    /\ requests = 3
    /\ pc = "search"
    /\ calls.load = 1
    /\ calls.get_object = 0
    /\ fetch_count = 1
    /\ ~load_failed
    /\ index = INDEX_CACHE
    /\ INDEX_CACHE /= None

\* ---- C2 (Spec) --------------------------------------------------------
\* C2: whenever the last load_index call failed (at get_object, decompress,
\* JSON parsing or the read of metadata.total_chunks), INDEX_CACHE is None.
C2_FailedLoadLeavesCacheEmpty ==
    last_load \notin {"none", "ok"} => INDEX_CACHE = None

\* ---- C3 (SpecSearch) --------------------------------------------------
ScoreOf(chunk) == cosine_similarity(s_reply.embedding, chunk.embedding)

\* C3: search_similar_chunks returns at most top_k chunks, in descending
\* order of similarity, chunks of equal similarity in ascending order of id.
C3_OrderedWithinBudget ==
    s_pc = "called" =>
      /\ Len(s_result) <= s_top_k
      /\ \A i, j \in 1..Len(s_result) :
           i < j =>
             /\ ~SimLess(ScoreOf(s_result[i]), ScoreOf(s_result[j]))
             /\ SimEq(ScoreOf(s_result[i]), ScoreOf(s_result[j]))
                  => s_result[i].id < s_result[j].id

\* Three scored chunks, a budget of two, and a tie between two different
\* vectors at the top of the result.
C3_Witness ==
    /\ s_pc = "called"
    /\ s_top_k = 2
    /\ Len(s_index.chunks) = 3
    /\ \A i \in 1..3 : s_index.chunks[i].embedding /= <<>>
    /\ Len(s_result) = 2
    /\ SimEq(ScoreOf(s_result[1]), ScoreOf(s_result[2]))
    /\ s_result[1].embedding /= s_result[2].embedding
    /\ s_result[1].id < s_result[2].id
    /\ \E i \in 1..3 : SimLess(ScoreOf(s_index.chunks[i]), ScoreOf(s_result[2]))

\* ---- C4 (Spec) --------------------------------------------------------
\* The invocation passed the key check, is no preflight and has a body that
\* parses to a JSON object.
ReachesValidation ==
    /\ pc /= "idle"
    /\ ~KeyRejected(event, key_configured)
    /\ event.method = "POST"
    /\ event.body \in {"absent", "object"}

C5_EmptyRetrievalShortCircuit ==
    (flags.searched /\ relevant_chunks = <<>>) =>
      /\ pc = "responded"
      /\ response = RespCanned
      /\ response.sources = {}
      /\ response.chunks_used = 0
      /\ calls.generate = 0

\* The embedding succeeded and the index has chunks, none of them scorable.
C5_Witness ==
    /\ flags.searched
    /\ ~flags.embed_failed
    /\ HasChunks(index)
    /\ Len(index.chunks) > 0
    /\ relevant_chunks = <<>>
    /\ pc = "responded"
    /\ response.answer = "canned_not_found"

\* ---- C6 (Spec) --------------------------------------------------------
\* C6: an invocation during which the embedding producer failed (raised or
\* gave no vector) ends with status 502.
C6_EmbeddingFailureIs502 ==
    (pc = "responded" /\ flags.embed_failed) => response.statusCode = 502

\* ---- C7 (Spec) --------------------------------------------------------
\* C7: an invocation during which the generation producer failed ends with an
\* error-class status, and the response does not carry the exception text.
C7_GenerationFailureIsError ==
    (pc = "responded" /\ flags.gen_failed) =>
      /\ response.statusCode >= 400
      /\ response.answer /= "error_text_with_exception_detail"
      /\ response.details = "none"

\* ---- C8 (SpecBuild) ---------------------------------------------------
\* The input indices whose embed_query call returned, in input order.
RECURSIVE SucceededUpTo(_, _)
SucceededUpTo(o, n) ==
    IF n = 0 THEN <<>>
    ELSE IF o[n].raised THEN SucceededUpTo(o, n - 1)
    ELSE Append(SucceededUpTo(o, n - 1), n - 1)

Succeeded == SucceededUpTo(b_outcomes, Len(b_outcomes))

LoopOver == b_pc \in {"upload", "done"} /\ b_docs > 0

\* One chunk per returned embedding, in input order, carrying that embedding.
OneChunkPerSuccess ==
    /\ Len(b_index.chunks) = Len(Succeeded)
    /\ \A j \in 1..Len(Succeeded) :
         b_index.chunks[j].embedding = b_outcomes[Succeeded[j] + 1].embedding

C9_EmptyIndexRejected ==
    (LoopOver /\ Len(b_index.chunks) = 0) =>
      /\ b_local = None
      /\ b_s3 = None
      /\ b_pc = "done" => b_result = "EmptyIndexError"

\* ---- C10 (SpecBuild) --------------------------------------------------
\* C10: the index in the written file has metadata.total_chunks equal to the
\* number of its chunks.
C10_TotalChunksCountsSuccesses ==
    b_local /= None =>
      Deserialize(b_local).metadata.total_chunks = Len(Deserialize(b_local).chunks)

\* ---- C11 (SpecConc) ---------------------------------------------------
\* C11: among the threads that called load_index while the cache was empty,
\* at most one has a get_object call in progress at any time.
C11_AtMostOneFetchInProgress ==
    Cardinality({ t \in Threads : t_pc[t] = "fetching" }) <= 1

\* ---- C12 (SpecSearch) -------------------------------------------------
\* The query vector and some scored chunk vector differ in length.
DimensionMismatch ==
    /\ ~s_reply.raised
    /\ s_reply.embedding /= <<>>
    /\ \E i \in 1..Len(s_index.chunks) :
         /\ s_index.chunks[i].embedding /= <<>>
         /\ Len(s_index.chunks[i].embedding) /= Len(s_reply.embedding)

\* C12: when the query vector's length differs from a stored vector's
\* length, the search returns no scored chunk.
C12_DimensionMismatchRejected ==
    (s_pc = "called" /\ DimensionMismatch) => s_result = <<>>

\* ---- C13 (Spec) -------------------------------------------------------
\* C13: every invocation ends by returning a response with a numeric status
\* code; no exception leaves lambda_handler.
C13_NoUnhandledCrash ==
    pc = "responded" =>
      /\ response.error /= "unhandled_exception"
      /\ response.statusCode \in {200, 400, 401, 500, 502}

\* ---- C14 (SpecCosine) -------------------------------------------------
\* All components are zero (the empty vector included).
IsZeroVec(v) == \A i \in 1..Len(v) : v[i] = 0

\* C14: with a zero-norm argument cosine_similarity returns 0.0 without
\* dividing; with two non-zero vectors it divides by a non-zero product and
\* sim(a, b) = sim(b, a).
C14_ZeroNormGuardSymmetric ==
    k_pc = "called" =>
      /\ (IsZeroVec(k_vec1) \/ IsZeroVec(k_vec2)) =>
           /\ k_sim.num = 0
           /\ k_sim.den = 1
           /\ ~k_sim.divided
      /\ (~IsZeroVec(k_vec1) /\ ~IsZeroVec(k_vec2)) =>
           /\ k_sim.divided
           /\ k_sim.den > 0
           /\ k_sim = k_rev

\* A non-zero first vector against an all-zero second vector.
C14_Witness ==
    /\ k_pc = "called"
    /\ k_vec1 = <<1, 1>>
    /\ k_vec2 = <<0, 0>>
    /\ k_sim.num = 0
    /\ ~k_sim.divided

\* ---- C15 (Spec) -------------------------------------------------------
\* The position of the invocation, in the order the handler passes them.
PcRank(p) ==
    CASE p = "idle" -> 0
      [] p = "received" -> 1
      [] p = "authorized" -> 2
      [] p = "validate" -> 3
      [] p = "load" -> 4
      [] p = "search" -> 5
      [] p = "generate" -> 6
      [] p = "respond" -> 7
      [] p = "responded" -> 8

\* The request state of the specification's state machine.  EMBEDDED is passed
\* inside search_similar_chunks, between the embedding call and the scoring.
Stage ==
    CASE pc \in {"idle"} -> "NONE"
      [] pc \in {"received", "authorized", "validate"} -> "RECEIVED"
      [] pc \in {"load", "search"} -> "VALIDATED"
      [] pc = "generate" -> "RETRIEVED"
      [] pc = "respond" -> "GENERATED"
      [] pc = "responded" ->
           IF response.statusCode = 200 THEN "RESPONDED" ELSE "ERROR"

\* The key check passed and the body carries a non-empty question.
ValidationPassed ==
    /\ ~KeyRejected(event, key_configured)
    /\ event.method = "POST"
    /\ event.body = "object"
    /\ event.question = "text"

\* C15: within an invocation the position only moves forward (RECEIVED,
\* VALIDATED, EMBEDDED/RETRIEVED, GENERATED, then RESPONDED or ERROR, never
\* back), a finished invocation moves no more; the embedding producer is
\* called only after validation passed, the generation producer only after
\* the search returned at least one chunk, and each at most once.
C15_StateOrder ==
    [][ /\ pc' = "received" \/ PcRank(pc') > PcRank(pc)
        /\ pc = "responded" => pc' = "received"
        /\ calls'.embed > calls.embed =>
             /\ calls.embed = 0
             /\ Stage = "VALIDATED"
             /\ ValidationPassed
        /\ calls'.generate > calls.generate =>
             /\ calls.generate = 0
             /\ Stage = "RETRIEVED"
             /\ calls.embed = 1
             /\ relevant_chunks /= <<>>
        /\ calls'.embed <= 1
        /\ calls'.generate <= 1 ]_vars

\* An invocation that went through every state and answered.
C15_Witness ==
    /\ Stage = "RESPONDED"
    /\ ValidationPassed
    /\ calls.load = 1
    /\ calls.embed = 1
    /\ calls.generate = 1
    /\ response.answer = "generated"

\* ---- C16 (Spec) -------------------------------------------------------
\* C16: a store with a chunk whose vector length differs from the declared
\* metadata.embedding_dimension is never the cached store.
C16_MismatchedStoreNeverCached ==
    (/\ HasChunks(INDEX_CACHE)
     /\ "metadata" \in DOMAIN INDEX_CACHE
     /\ "embedding_dimension" \in DOMAIN INDEX_CACHE.metadata) =>
      \A i \in 1..Len(INDEX_CACHE.chunks) :
        Len(INDEX_CACHE.chunks[i].embedding) = INDEX_CACHE.metadata.embedding_dimension

\* ---- C17 (SpecBuild) --------------------------------------------------
\* C17: every chunk in the builder's store has a non-empty vector, and all
\* vectors of the store have the same length.
C17_StoreVectorsUniform ==
    (b_pc \in {"embed", "upload", "done"} /\ b_docs > 0) =>
      /\ \A i \in 1..Len(b_index.chunks) : b_index.chunks[i].embedding /= <<>>
      /\ \A i, j \in 1..Len(b_index.chunks) :
           Len(b_index.chunks[i].embedding) = Len(b_index.chunks[j].embedding)

\* ---- C18 (Spec) -------------------------------------------------------
\* C18: once INDEX_CACHE holds a value, no step of any later invocation
\* empties it, replaces it or changes its content.
C18_CacheNeverInvalidated ==
    [][ INDEX_CACHE /= None => INDEX_CACHE' = INDEX_CACHE ]_vars

\* The cache was filled by an earlier invocation; a later one loaded from it
\* and searched it, and the store is still the one that was fetched.
C18_Witness ==
    /\ requests = 3
    /\ fetch_count = 1
    /\ HasChunks(INDEX_CACHE)
    /\ Len(INDEX_CACHE.chunks) > 0
    /\ calls.get_object = 0
    /\ calls.load = 1
    /\ flags.searched
    /\ relevant_chunks /= <<>>
    /\ pc = "responded"

\* ---- C19 (SpecSearch) -------------------------------------------------
\* The chunks of the index that have a non-empty vector.
Scorable == { i \in 1..Len(s_index.chunks) : s_index.chunks[i].embedding /= <<>> }

\* C19: given a query vector, the search returns exactly min(top_k, n)
\* chunks, n the number of chunks with a non-empty vector: each returned
\* chunk is a chunk of the store with a non-empty vector, none twice.
C19_ExactResultSize ==
    (s_pc = "called" /\ ~s_reply.raised /\ s_reply.embedding /= <<>>) =>
      /\ Len(s_result) = Min(s_top_k, Cardinality(Scorable))
      /\ \A i \in 1..Len(s_result) :
           /\ s_result[i].embedding /= <<>>
           /\ \E c \in Scorable : s_index.chunks[c] = s_result[i]
      /\ \A i, j \in 1..Len(s_result) : i /= j => s_result[i].id /= s_result[j].id

\* A store shorter than the budget, one of its chunks without a vector.
C19_Witness ==
    /\ s_pc = "called"
    /\ ~s_reply.raised
    /\ s_reply.embedding /= <<>>
    /\ Len(s_index.chunks) = 3
    /\ Cardinality(Scorable) = 2
    /\ s_top_k = 3
    /\ Len(s_result) = 2

\* ---- C20 (Spec) -------------------------------------------------------
\* C20: an invocation without the configured key (header missing, empty,
\* different, or no key configured), OPTIONS included, ends with the 401
\* response and has made no load_index, embedding or generation call.
C20_UnauthorizedIs401 ==
    (pc = "responded" /\ KeyRejected(event, key_configured)) =>
      /\ response = Resp401
      /\ calls = NoCalls

\* ---- C21 (Spec) -------------------------------------------------------
\* The last load_index call raised.
LastLoadFailed == last_load \notin {"none", "ok"}

\* C21: the embedding producer is called only after load_index returned the
\* index in the same invocation; an invocation whose load_index call raised
\* ends with the 500 response and makes no embedding or generation call; and
\* after a failed load the next load_index call fetches the object again.
C21_LoadPrecedesEmbedding ==
    [][ /\ calls'.embed > calls.embed =>
             /\ calls.load = 1
             /\ index /= None
        /\ (pc = "load" /\ LastLoadFailed' /\ calls'.load = 1) =>
             /\ pc' = "responded"
             /\ response' = Resp500
             /\ calls'.embed = 0
             /\ calls'.generate = 0
        /\ (pc = "responded" /\ calls.load = 1 /\ LastLoadFailed) =>
             /\ calls.embed = 0
             /\ calls.generate = 0
        /\ (pc = "load" /\ LastLoadFailed) => calls'.get_object = 1 ]_vars

====
